---- MODULE Spec2Model ----
(***************************************************************************)
(* The AudioSR worker (python/audiosr_worker.py): a read loop over stdin    *)
(* that answers one JSON line at a time on the saved stdout, keeps one      *)
(* model handle cached by (model_name, device), and calls the audiosr       *)
(* collaborator (import, build_model, super_resolution, soundfile.write).   *)
(* One action of the model is one iteration of the loop of main(), or the   *)
(* end of the loop; the collaborator's outcomes are nondeterministic.       *)
(***************************************************************************)
EXTENDS Integers, Sequences, FiniteSets, TLC

\* number of lines the parent writes to stdin in one run
MaxLines == 3

----------------------------------------------------------------------------
(* JSON values as json.loads returns them: tagged, so that the string "50"  *)
(* and the number 50 differ, and None differs from "".                      *)
None == <<"null">>
Str(s) == <<"str", s>>
Num(t) == <<"num", t>>

\* Python truthiness of a decoded value (None, "" and 0 are falsy)
Truthy(v) == v # None /\ v # Str("") /\ v # Num("0")

\* dict.get(key): the value, or None when the key is absent
Get(m, k) == IF k \in DOMAIN m THEN m[k] ELSE None
\* dict.get(key, default)
GetDefault(m, k, d) == IF k \in DOMAIN m THEN m[k] ELSE d

\* literals int() accepts from a str, and float() accepts from a str
IntLiterals == {"100", "50", "42"}
FloatLiterals == IntLiterals \cup {"3.5", "2.5"}

NoExc == [type |-> "", text |-> ""]
Exc(t, x) == [type |-> t, text |-> x]

\* int(v): NoExc when it returns, else the exception it raises
IntCoerce(v) ==
    IF v[1] = "num" THEN NoExc
    ELSE IF v[1] = "str"
         THEN IF v[2] \in IntLiterals THEN NoExc
              ELSE Exc("ValueError", "invalid literal for int()")
         ELSE Exc("TypeError", "int() argument must be a string or a number")

\* float(v)
FloatCoerce(v) ==
    IF v[1] = "num" THEN NoExc
    ELSE IF v[1] = "str"
         THEN IF v[2] \in FloatLiterals THEN NoExc
              ELSE Exc("ValueError", "could not convert string to float")
         ELSE Exc("TypeError", "float() argument must be a string or a number")

----------------------------------------------------------------------------
(* The lines the parent may write.  A line is what json.loads makes of it:  *)
(* blank, malformed (JSONDecodeError), a JSON value that is no object, or   *)
(* an object (a dict, here a function from keys to values).                 *)
Field(k, v) == IF v = <<>> THEN <<>> ELSE (k :> v)

\* (model_name, device) pairs of process commands: <<>> is an absent key
KeyFields ==
    {<<Str("basic"), Str("cpu")>>, <<Str("basic"), Str("cuda")>>,
     <<Str("speech"), Str("cpu")>>}
      \cup {<<<<>>, Str("cpu")>>, <<Str(""), Str("cpu")>>, <<Str("basic"), None>>}

PathFields ==
    {<<Str("a.wav"), Str("b.wav")>>, <<<<>>, Str("b.wav")>>, <<Str("a.wav"), Str("")>>}

\* (ddim_steps, guidance_scale, seed)
ParamFields ==
    {<<<<>>, <<>>, <<>>>>,
     <<Num("50"), Num("2.5"), Num("42")>>,
     <<Str("abc"), <<>>, <<>>>>,
     <<<<>>, Str("abc"), <<>>>>,
     <<<<>>, <<>>, None>>}

ProcessMsg(k, p, q) ==
    ("command" :> Str("process")) @@ Field("model_name", k[1]) @@ Field("device", k[2])
      @@ Field("input", p[1]) @@ Field("output", p[2])
      @@ Field("ddim_steps", q[1]) @@ Field("guidance_scale", q[2]) @@ Field("seed", q[3])

\* a full, valid request for key k
FullMsg(k) == ProcessMsg(k, <<Str("a.wav"), Str("b.wav")>>, <<<<>>, <<>>, <<>>>>)

ProcessMsgs ==
    {FullMsg(k) : k \in KeyFields}
      \cup {ProcessMsg(<<Str("basic"), Str("cpu")>>, p, <<<<>>, <<>>, <<>>>>) : p \in PathFields}
      \cup {ProcessMsg(<<Str("basic"), Str("cpu")>>, <<Str("a.wav"), Str("b.wav")>>, q) :
              q \in ParamFields}

PingMsgs == {("command" :> Str("ping"))}
ShutdownMsgs == {("command" :> Str("shutdown"))}
OtherMsgs == {("command" :> Str("status")), ("command" :> Num("1")), ("cmd" :> Str("ping"))}

\* JSON values that are not objects: array, number, string, null
NonObjects == {<<"array">>, Num("42"), Str("ping"), None}

----------------------------------------------------------------------------
VARIABLES
    state,           \* "AWAITING_COMMAND" (in the read loop) or "TERMINATED"
    exitStatus,      \* <<>> while the process runs, <<0>> or <<1>> once it exited
    hung,            \* TRUE when the worker is inside a call that never returns
    message,         \* main's message: what json.loads returned last
    audiosr_module,  \* main's audiosr_module: NoModule or "audiosr"
    patched,         \* TRUE once torchaudio.load was replaced by patched_load
    model,           \* main's model: NoModel or the handle build_model returned
    model_name,      \* main's model_name: None or the cached request value
    device,          \* main's device: None or the cached request value
    out,             \* the lines written to the saved stdout, oldest first
    diag,            \* the tracebacks traceback.print_exc wrote to stderr
    printed,         \* what print() and logging wrote to stderr in the latest step
    nlines,          \* lines read from stdin so far, blank ones included
    cmds,            \* class of each non-blank line read so far, oldest first
    calls            \* collaborator calls made for the last non-blank line read

vars == <<state, exitStatus, hung, message, audiosr_module, patched, model, model_name,
          device, out, diag, printed, nlines, cmds, calls>>

\* message before the first assignment of line 60
Unbound == ("<unbound>" :> None)
NoModule == "None"
NoModel == <<>>
\* the handle build_model(requested_model, requested_device) returns
Handle(n, d) == <<"handle", n, d>>

NA == "n/a"
ImportOutcomes == {"ok", "no_audiosr", "no_torchaudio"}
\* build_model(model_name=.., device=..): returns, rejects the keywords
\* (TypeError raised by the call itself), raises TypeError in its body, or
\* raises another exception
NamedOutcomes == {"ok", "sig_mismatch", "type_error", "error"}
PositionalOutcomes == {"ok", "error"}
\* super_resolution: returns (sr, waveform), returns None, raises, never returns
InferOutcomes == {"tuple", "none", "raise", "hang"}
WriteOutcomes == {"ok", "raise"}

Call(op, arg, result) == [op |-> op, arg |-> arg, result |-> result]

Raised(s) == s.exc # NoExc
Stopped(s) == Raised(s) \/ s.hung

\* the locals of main() when a process command enters the try block (line 78)
Entry ==
    [module |-> audiosr_module, patched |-> patched, model |-> model,
     model_name |-> model_name, device |-> device, calls |-> <<>>,
     exc |-> NoExc, hung |-> FALSE]

\* DoImport without the test of line 79: the imports run for every command
DoImportAlways(s, imp) ==
    IF imp \in {"ok", NA}
    THEN [s EXCEPT !.module = "audiosr", !.patched = TRUE,
                   !.calls = @ \o <<Call("import", Str("audiosr"), "ok"),
                                    Call("import", Str("torchaudio"), "ok")>>]
    ELSE [s EXCEPT !.calls = Append(@, Call("import", Str("audiosr"), "raise")),
                   !.exc = Exc("ModuleNotFoundError", "No module named 'audiosr'")]

\* lines 79-100: the imports, only while audiosr_module is None
DoImport(s, imp) ==
    IF s.module # NoModule THEN s
    ELSE IF imp = "ok"
         THEN [s EXCEPT !.module = "audiosr", !.patched = TRUE,
                        !.calls = @ \o <<Call("import", Str("audiosr"), "ok"),
                                         Call("import", Str("torchaudio"), "ok")>>]
    ELSE IF imp = "no_audiosr"
         THEN [s EXCEPT !.calls = Append(@, Call("import", Str("audiosr"), "raise")),
                        !.exc = Exc("ModuleNotFoundError", "No module named 'audiosr'")]
    ELSE \* audiosr_module is bound by line 80, then an import of lines 81-83 raises
         [s EXCEPT !.module = "audiosr",
                   !.calls = @ \o <<Call("import", Str("audiosr"), "ok"),
                                    Call("import", Str("torchaudio"), "raise")>>,
                   !.exc = Exc("ModuleNotFoundError", "No module named 'torchaudio'")]

\* CheckKey testing model_name only
CheckKeyNameOnly(s, m) ==
    IF ~Truthy(Get(m, "model_name"))
    THEN [s EXCEPT !.exc = Exc("ValueError", "model_name or device missing")]
    ELSE s

\* lines 102-105
CheckKey(s, m) ==
    IF ~Truthy(Get(m, "model_name")) \/ ~Truthy(Get(m, "device"))
    THEN [s EXCEPT !.exc = Exc("ValueError", "model_name or device missing")]
    ELSE s

\* NeedBuild with the cache ignored
NeedBuildAlways(s, rm, rd) == TRUE

\* NeedBuild comparing the model name only
NeedBuildNameOnly(s, rm, rd) == s.model = NoModel \/ s.model_name # rm

\* line 107: the cache misses
NeedBuild(s, rm, rd) == s.model = NoModel \/ s.model_name # rm \/ s.device # rd

\* lines 21-25: the named call, and the positional call after any TypeError
load_model(rm, rd, bn, bp) ==
    LET named(res) == Call("build", <<"named", rm, rd>>, res)
        positional(res) == Call("build", <<"positional", rm, rd>>, res)
    IN  IF bn = "ok"
        THEN [calls |-> <<named("ok")>>, exc |-> NoExc, handle |-> Handle(rm, rd)]
        ELSE IF bn = "error"
        THEN [calls |-> <<named("raise")>>, exc |-> Exc("RuntimeError", "collaborator failed"),
              handle |-> NoModel]
        ELSE \* TypeError, from the call or from the body of build_model
             IF bp = "ok"
             THEN [calls |-> <<named(bn), positional("ok")>>, exc |-> NoExc,
                   handle |-> Handle(rm, rd)]
             ELSE [calls |-> <<named(bn), positional("raise")>>,
                   exc |-> Exc("RuntimeError", "collaborator failed"), handle |-> NoModel]

\* EnsureModel storing the requested key before the build is attempted
EnsureModelKeyFirst(s, m, bn, bp) ==
    LET rm == Get(m, "model_name")
        rd == Get(m, "device")
        b == load_model(rm, rd, bn, bp)
    IN  IF ~NeedBuild(s, rm, rd) THEN s
        ELSE IF b.exc # NoExc
        THEN [s EXCEPT !.calls = @ \o b.calls, !.exc = b.exc,
                       !.model_name = rm, !.device = rd]
        ELSE [s EXCEPT !.calls = @ \o b.calls, !.model = b.handle,
                       !.model_name = rm, !.device = rd]

\* EnsureModel emptying the cache when the build fails
EnsureModelDropOnFailure(s, m, bn, bp) ==
    LET rm == Get(m, "model_name")
        rd == Get(m, "device")
        b == load_model(rm, rd, bn, bp)
    IN  IF ~NeedBuild(s, rm, rd) THEN s
        ELSE IF b.exc # NoExc
        THEN [s EXCEPT !.calls = @ \o b.calls, !.exc = b.exc,
                       !.model = NoModel, !.model_name = None, !.device = None]
        ELSE [s EXCEPT !.calls = @ \o b.calls, !.model = b.handle,
                       !.model_name = rm, !.device = rd]

\* EnsureModel replacing the handle but not the key
EnsureModelStaleKey(s, m, bn, bp) ==
    LET rm == Get(m, "model_name")
        rd == Get(m, "device")
        b == load_model(rm, rd, bn, bp)
    IN  IF ~NeedBuild(s, rm, rd) THEN s
        ELSE IF b.exc # NoExc
        THEN [s EXCEPT !.calls = @ \o b.calls, !.exc = b.exc]
        ELSE IF s.model = NoModel
        THEN [s EXCEPT !.calls = @ \o b.calls, !.model = b.handle,
                       !.model_name = rm, !.device = rd]
        ELSE [s EXCEPT !.calls = @ \o b.calls, !.model = b.handle]

\* lines 107-110
EnsureModel(s, m, bn, bp) ==
    LET rm == Get(m, "model_name")
        rd == Get(m, "device")
        b == load_model(rm, rd, bn, bp)
    IN  IF ~NeedBuild(s, rm, rd) THEN s
        ELSE IF b.exc # NoExc
        THEN [s EXCEPT !.calls = @ \o b.calls, !.exc = b.exc]
        ELSE [s EXCEPT !.calls = @ \o b.calls, !.model = b.handle,
                       !.model_name = rm, !.device = rd]

\* CheckPaths testing the input path only
CheckPathsInputOnly(s, m) ==
    IF ~Truthy(Get(m, "input"))
    THEN [s EXCEPT !.exc = Exc("ValueError", "input or output missing")]
    ELSE s

\* lines 112-115
CheckPaths(s, m) ==
    IF ~Truthy(Get(m, "input")) \/ ~Truthy(Get(m, "output"))
    THEN [s EXCEPT !.exc = Exc("ValueError", "input or output missing")]
    ELSE s

\* lines 117-122: the first coercion that raises ends the block
Coerce(s, m) ==
    LET e1 == IntCoerce(GetDefault(m, "ddim_steps", Num("100")))
        e2 == FloatCoerce(GetDefault(m, "guidance_scale", Num("3.5")))
        e3 == IF "seed" \in DOMAIN m THEN IntCoerce(m["seed"]) ELSE NoExc
    IN  IF e1 # NoExc THEN [s EXCEPT !.exc = e1]
        ELSE IF e2 # NoExc THEN [s EXCEPT !.exc = e2]
        ELSE IF e3 # NoExc THEN [s EXCEPT !.exc = e3]
        ELSE s

\* Infer dropping the cached model when the call raises
InferDropsModel(s, m, inf) ==
    LET c == Call("infer", s.model, inf)
        t == [s EXCEPT !.calls = Append(@, c)]
    IN  IF inf = "tuple" THEN t
        ELSE IF inf = "none"
        THEN [t EXCEPT !.exc = Exc("TypeError", "cannot unpack non-iterable NoneType object")]
        ELSE IF inf = "raise"
        THEN [t EXCEPT !.exc = Exc("RuntimeError", "collaborator failed"),
                       !.model = NoModel, !.model_name = None, !.device = None]
        ELSE [t EXCEPT !.hung = TRUE]

\* line 127: the call and the unpacking of its result
Infer(s, m, inf) ==
    LET c == Call("infer", s.model, inf)
        t == [s EXCEPT !.calls = Append(@, c)]
    IN  IF inf = "tuple" THEN t
        ELSE IF inf = "none"
        THEN [t EXCEPT !.exc = Exc("TypeError", "cannot unpack non-iterable NoneType object")]
        ELSE IF inf = "raise"
        THEN [t EXCEPT !.exc = Exc("RuntimeError", "collaborator failed")]
        ELSE [t EXCEPT !.hung = TRUE]

\* lines 130-139: soundfile.write(output_path, waveform, sr_rate)
WriteOutput(s, m, wr) ==
    LET c == Call("write", Get(m, "output"), wr)
        t == [s EXCEPT !.calls = Append(@, c)]
    IN  IF wr = "ok" THEN t
        ELSE [t EXCEPT !.exc = Exc("RuntimeError", "collaborator failed")]

\* a statement of the try block runs only if none before it raised or hung
Then(s, t) == IF Stopped(s) THEN s ELSE t

\* the outcomes the collaborator can produce at a call: NA when the call is
\* not reached
ImportChoices(s) == IF s.module = NoModule THEN ImportOutcomes ELSE {NA}
NamedChoices(s, m) ==
    IF ~Stopped(s) /\ NeedBuild(s, Get(m, "model_name"), Get(m, "device"))
    THEN NamedOutcomes ELSE {NA}
PositionalChoices(bn) ==
    IF bn \in {"sig_mismatch", "type_error"} THEN PositionalOutcomes ELSE {NA}
InferChoices(s) == IF Stopped(s) THEN {NA} ELSE InferOutcomes
WriteChoices(s) == IF Stopped(s) THEN {NA} ELSE WriteOutcomes

----------------------------------------------------------------------------
Msgs == PingMsgs \cup ShutdownMsgs \cup OtherMsgs \cup ProcessMsgs

Init ==
    /\ state = "AWAITING_COMMAND"
    /\ exitStatus = <<>>
    /\ hung = FALSE
    /\ message = Unbound
    /\ audiosr_module = NoModule
    /\ patched = FALSE
    /\ model = NoModel
    /\ model_name = None
    /\ device = None
    /\ out = <<>>
    /\ diag = <<>>
    /\ printed = <<>>
    /\ nlines = 0
    /\ cmds = <<>>
    /\ calls = <<>>

\* the loop of line 52 is about to read a line the parent wrote
CanRead == state = "AWAITING_COMMAND" /\ ~hung /\ nlines < MaxLines

\* lines 15-18: one JSON line on the saved stdout
send(payload) == Append(out, payload)

\* SysStdout left at the process's own stdout (line 12 missing)
SysStdoutOriginal == "stdout"

\* line 12: sys.stdout after the redirection, the target of print()
SysStdout == "stderr"

\* the collaborator calls whose body ran to an end: each prints its progress
\* through print() or logging (line 50: logging goes to stderr)
Ran(c) == c.op \in {"build", "infer"} /\ c.result \notin {"sig_mismatch", "hang"}
Printed(cs) == [i \in 1..Len(SelectSeq(cs, Ran)) |-> [text |-> "progress"]]
\* where print() puts these texts
OnStdout(texts) == IF SysStdout = "stdout" THEN texts ELSE <<>>
OnStderr(texts) == IF SysStdout = "stderr" THEN texts ELSE <<>>

\* line 62
ParseErrorPayload == [status |-> "error", message |-> "JSON parse failed"]
\* PingPayload reporting whether a model is loaded
PingPayloadByModel ==
    [status |-> "ok", message |-> IF model = NoModel THEN "loading" ELSE "ready"]

\* line 67
PingPayload == [status |-> "ok", message |-> "ready"]
\* line 71
ShutdownPayload == [status |-> "ok", message |-> "shutdown"]
\* line 75
UnsupportedPayload == [status |-> "error", message |-> "unsupported command"]
\* line 141
DonePayload == [status |-> "ok", message |-> "done"]
\* ErrorPayload without the traceback field
ErrorPayloadNoTrace(e) == [status |-> "error", message |-> e.text]

\* lines 143-144: str(exc) and traceback.format_exc()
ErrorPayload(e) ==
    [status |-> "error", message |-> e.text,
     traceback |-> <<"Traceback (most recent call last):", e.type, e.text>>]

\* what a line that is no process command leaves alone
CacheUnchanged ==
    /\ UNCHANGED <<audiosr_module, patched, model, model_name, device>>
    /\ printed' = <<>>

\* lines 55-57: a line that is empty after strip()
ReadBlank ==
    /\ CanRead
    /\ nlines' = nlines + 1
    /\ UNCHANGED <<state, exitStatus, hung, message, out, diag, cmds, calls>>
    /\ CacheUnchanged

\* ReadMalformed without the except clause of line 61: the error escapes main()
ReadMalformedUncaught ==
    /\ CanRead
    /\ nlines' = nlines + 1
    /\ cmds' = Append(cmds, "malformed")
    /\ calls' = <<>>
    /\ diag' = Append(diag, Exc("JSONDecodeError", "Expecting value"))
    /\ state' = "TERMINATED"
    /\ exitStatus' = <<1>>
    /\ UNCHANGED <<hung, message, out>>
    /\ CacheUnchanged

\* lines 59-63: json.loads raises JSONDecodeError
ReadMalformed ==
    /\ CanRead
    /\ nlines' = nlines + 1
    /\ cmds' = Append(cmds, "malformed")
    /\ calls' = <<>>
    /\ out' = send(ParseErrorPayload)
    /\ UNCHANGED <<state, exitStatus, hung, message, diag>>
    /\ CacheUnchanged

\* lines 60, 65 and 151-155: json.loads returns a list, a number, a string or
\* None, message.get raises AttributeError outside any try of main()
ReadNonObject ==
    /\ CanRead
    /\ \E v \in NonObjects : message' = ("<value>" :> v)
    /\ diag' = Append(diag, Exc("AttributeError", "object has no attribute 'get'"))
    /\ nlines' = nlines + 1
    /\ cmds' = Append(cmds, "value")
    /\ calls' = <<>>
    /\ state' = "TERMINATED"
    /\ exitStatus' = <<1>>
    /\ UNCHANGED <<hung, out>>
    /\ CacheUnchanged

\* lines 65-68
Ping ==
    /\ CanRead
    /\ \E m \in Msgs : Get(m, "command") = Str("ping") /\ message' = m
    /\ nlines' = nlines + 1
    /\ cmds' = Append(cmds, "ping")
    /\ calls' = <<>>
    /\ out' = send(PingPayload)
    /\ UNCHANGED <<state, exitStatus, hung, diag>>
    /\ CacheUnchanged

\* Shutdown with continue in place of the break of line 72
ShutdownContinue ==
    /\ CanRead
    /\ \E m \in Msgs : Get(m, "command") = Str("shutdown") /\ message' = m
    /\ nlines' = nlines + 1
    /\ cmds' = Append(cmds, "shutdown")
    /\ calls' = <<>>
    /\ out' = send(ShutdownPayload)
    /\ UNCHANGED <<state, exitStatus, hung, diag>>
    /\ CacheUnchanged

\* lines 70-72, 146 and 152: break, return 0, sys.exit(0)
Shutdown ==
    /\ CanRead
    /\ \E m \in Msgs : Get(m, "command") = Str("shutdown") /\ message' = m
    /\ nlines' = nlines + 1
    /\ cmds' = Append(cmds, "shutdown")
    /\ calls' = <<>>
    /\ out' = send(ShutdownPayload)
    /\ state' = "TERMINATED"
    /\ exitStatus' = <<0>>
    /\ UNCHANGED <<hung, diag>>
    /\ CacheUnchanged

\* lines 74-76
Unsupported ==
    /\ CanRead
    /\ \E m \in Msgs :
         /\ Get(m, "command") \notin {Str("ping"), Str("shutdown"), Str("process")}
         /\ message' = m
    /\ nlines' = nlines + 1
    /\ cmds' = Append(cmds, "other")
    /\ calls' = <<>>
    /\ out' = send(UnsupportedPayload)
    /\ UNCHANGED <<state, exitStatus, hung, diag>>
    /\ CacheUnchanged

\* lines 78-144: the process command inside its try block
Process ==
    /\ CanRead
    /\ \E m \in Msgs :
         /\ Get(m, "command") = Str("process")
         /\ message' = m
         /\ \E s0 \in {Entry} :
            \E imp \in ImportChoices(s0) :
            \E s1 \in {DoImport(s0, imp)} :
            \E s2 \in {Then(s1, CheckKey(s1, m))} :
            \E bn \in NamedChoices(s2, m) :
            \E bp \in PositionalChoices(bn) :
            \E s3 \in {Then(s2, EnsureModel(s2, m, bn, bp))} :
            \E s4 \in {Then(s3, CheckPaths(s3, m))} :
            \E s5 \in {Then(s4, Coerce(s4, m))} :
            \E inf \in InferChoices(s5) :
            \E s6 \in {Then(s5, Infer(s5, m, inf))} :
            \E wr \in WriteChoices(s6) :
            \E r \in {Then(s6, WriteOutput(s6, m, wr))} :
                  /\ audiosr_module' = r.module
                  /\ patched' = r.patched
                  /\ model' = r.model
                  /\ model_name' = r.model_name
                  /\ device' = r.device
                  /\ calls' = r.calls
                  /\ hung' = r.hung
                  /\ printed' = OnStderr(Printed(r.calls))
                  /\ \E shown \in {out \o OnStdout(Printed(r.calls))} :
                       out' = IF r.hung THEN shown
                              ELSE IF Raised(r) THEN Append(shown, ErrorPayload(r.exc))
                              ELSE Append(shown, DonePayload)
    /\ nlines' = nlines + 1
    /\ cmds' = Append(cmds, "process")
    /\ UNCHANGED <<state, exitStatus, diag>>

\* EndOfInput treated as a failure: a Response and exit status 1
EndOfInputFailure ==
    /\ state = "AWAITING_COMMAND"
    /\ ~hung
    /\ state' = "TERMINATED"
    /\ exitStatus' = <<1>>
    /\ out' = send([status |-> "error", message |-> "end of input"])
    /\ UNCHANGED <<hung, message, diag, nlines, cmds, calls>>
    /\ CacheUnchanged

\* line 52 ends the loop at end of input; lines 146 and 152: return 0, sys.exit(0)
EndOfInput ==
    /\ state = "AWAITING_COMMAND"
    /\ ~hung
    /\ state' = "TERMINATED"
    /\ exitStatus' = <<0>>
    /\ UNCHANGED <<hung, message, out, diag, nlines, cmds, calls>>
    /\ CacheUnchanged

Next ==
    \/ ReadBlank
    \/ ReadMalformed
    \/ ReadNonObject
    \/ Ping
    \/ Shutdown
    \/ Unsupported
    \/ Process
    \/ EndOfInput

Spec == Init /\ [][Next]_vars

\* lines 52-146: the loop keeps taking its next step (the next line, or the end
\* of input) unless a collaborator call never returns
LiveSpec == Init /\ [][Next]_vars /\ WF_vars(Next)

----------------------------------------------------------------------------
(* Vocabulary of the properties                                             *)
Last(q) == q[Len(q)]
\* this step read a non-blank line of class c
Reads(c) == cmds' = Append(cmds, c)
ProcessStep == Reads("process")
\* the step wrote exactly the one Response p
Emits(p) == out' = Append(out, p)
EmitsOne == Len(out') = Len(out) + 1 /\ SubSeq(out', 1, Len(out)) = out
CacheSame == model' = model /\ model_name' = model_name /\ device' = device
ModuleSame == audiosr_module' = audiosr_module /\ patched' = patched
Awaiting == state = "AWAITING_COMMAND" /\ exitStatus = <<>> /\ ~hung
HasTraceback(p) == "traceback" \in DOMAIN p
CallsOf(cs, op) == {i \in DOMAIN cs : cs[i].op = op}

\* the Response that answers a line of class c
Answers(c, p) ==
    IF c = "ping" THEN p = PingPayload
    ELSE IF c = "shutdown" THEN p = ShutdownPayload
    ELSE IF c = "process" THEN p = DonePayload \/ (p.status = "error" /\ HasTraceback(p))
    ELSE p.status = "error" /\ ~HasTraceback(p)

\* C1 (as claimed): between two reads, every non-blank line read so far has
\* exactly one Response, the k-th Response answering the k-th line; and the
\* lines ping, a succeeding process, shutdown give ready, done, shutdown and
\* exit status 0.  (A line whose inference call has not returned is left out.)
C1_OrderedOneToOne ==
    /\ ~hung => /\ Len(out) = Len(cmds)
                /\ \A k \in 1..Len(cmds) : Answers(cmds[k], out[k])
    /\ (cmds = <<"ping", "process", "shutdown">>
          /\ Len(out) >= 2 /\ ~HasTraceback(out[2]))
         => /\ out = <<PingPayload, DonePayload, ShutdownPayload>>
            /\ exitStatus = <<0>>

\* C2 (as claimed): protocol errors are never fatal: no line makes the exit
\* status 1, the worker is TERMINATED only after end of input or a shutdown
\* command, and a line that is malformed, no object or an unsupported command
\* has an error Response.
C2_ProtocolErrorsNotFatal ==
    /\ exitStatus # <<1>>
    /\ (Len(cmds) > 0 /\ Last(cmds) \in {"malformed", "value", "other"})
         => /\ Len(out) = Len(cmds)
            /\ Last(out).status = "error"

\* C3: a line that fails JSON parsing gets exactly one error Response with a
\* message and no traceback, makes no collaborator call, leaves the cache and
\* the imported module alone, and leaves the worker awaiting the next line.
C3_ParseErrorReported ==
    [][Reads("malformed") =>
         /\ EmitsOne
         /\ Last(out').status = "error"
         /\ DOMAIN Last(out') = {"status", "message"}
         /\ calls' = <<>>
         /\ CacheSame /\ ModuleSame
         /\ Awaiting']_vars

C3_Witness ==
    /\ Len(cmds) >= 2 /\ Last(cmds) = "malformed" /\ cmds[1] = "process"
    /\ model # NoModel
    /\ Last(out) = ParseErrorPayload
    /\ Awaiting

\* C4: ping is answered by exactly {status: ok, message: ready} whatever
\* happened before, with the cache untouched, no collaborator call, and the
\* worker still awaiting a command.
C4_PingReady ==
    [][Reads("ping") =>
         /\ Emits([status |-> "ok", message |-> "ready"])
         /\ calls' = <<>>
         /\ CacheSame /\ ModuleSame
         /\ Awaiting']_vars

C4_Witness ==
    /\ Len(cmds) >= 3 /\ Last(cmds) = "ping"
    /\ cmds[Len(cmds) - 1] = "process" /\ HasTraceback(out[Len(out) - 1])
    /\ \E k \in 1..Len(cmds) : cmds[k] = "malformed"
    /\ model # NoModel
    /\ Last(out) = [status |-> "ok", message |-> "ready"]

\* C5: shutdown is answered by {status: ok, message: shutdown}, the worker is
\* TERMINATED with exit status 0, and after it no line is read and nothing is
\* written, although the parent may have more lines to send.
C5_ShutdownLast ==
    [][/\ Reads("shutdown") =>
            /\ Emits([status |-> "ok", message |-> "shutdown"])
            /\ state' = "TERMINATED"
            /\ exitStatus' = <<0>>
       /\ (Len(cmds) > 0 /\ Last(cmds) = "shutdown") =>
            UNCHANGED <<out, nlines, cmds, exitStatus, state>>]_vars

C5_Witness ==
    /\ Len(cmds) >= 2 /\ Last(cmds) = "shutdown"
    /\ nlines < MaxLines
    /\ Last(out) = [status |-> "ok", message |-> "shutdown"]
    /\ state = "TERMINATED" /\ exitStatus = <<0>>

\* C6: end of input terminates the worker without a Response and with exit
\* status 0; exit status 1 arises only in a step where an exception escapes
\* the read loop, which writes the traceback to the diagnostic stream and
\* nothing to the protocol stream.
C6_EndOfInputAndExitStatus ==
    [][/\ (state = "AWAITING_COMMAND" /\ state' = "TERMINATED" /\ nlines' = nlines) =>
            /\ out' = out
            /\ diag' = diag
            /\ exitStatus' = <<0>>
       /\ (exitStatus' = <<1>> /\ exitStatus # <<1>>) =>
            /\ Reads("value")
            /\ Len(diag') = Len(diag) + 1
            /\ Last(diag').type = "AttributeError"
            /\ out' = out
       /\ (exitStatus' # <<1>>) => diag' = diag]_vars

C6_Witness ==
    /\ state = "TERMINATED" /\ exitStatus = <<0>>
    /\ Len(cmds) > 0 /\ Last(cmds) # "shutdown"
    /\ Len(out) = Len(cmds)
    /\ diag = <<>>

\* the (model_name, device) the command read in this step asks for
Requested == <<Get(message', "model_name"), Get(message', "device")>>
KeyGiven == Truthy(Requested[1]) /\ Truthy(Requested[2])
CacheHit == model # NoModel /\ Requested = <<model_name, device>>

\* C7: a process command whose (model_name, device) equals the cached key,
\* while the cache holds a handle, invokes no build, leaves the cache as it
\* is, and passes the cached handle to every inference call it makes.
C7_CacheHitNoBuild ==
    [][(ProcessStep /\ CacheHit) =>
         /\ CallsOf(calls', "build") = {}
         /\ CallsOf(calls', "import") = {}
         /\ CacheSame
         /\ \A i \in CallsOf(calls', "infer") : calls'[i].arg = model]_vars

\* two process commands with one key and another command between them: the
\* second one ran inference on the cached handle without a build
C7_Witness ==
    /\ Len(cmds) = 3 /\ cmds[1] = "process" /\ cmds[3] = "process"
    /\ cmds[2] \in {"ping", "malformed", "other"}
    /\ out[1] = DonePayload
    /\ CallsOf(calls, "build") = {}
    /\ \E i \in CallsOf(calls, "infer") : calls[i].arg = model
    /\ out[3] = DonePayload

\* C8: a process command whose valid (model_name, device) differs from the key
\* of a loaded cache invokes build for the requested pair, and when that build
\* succeeds the cache holds exactly the requested key and the handle built for
\* it.
C8_KeyChangeRebuilds ==
    [][(ProcessStep /\ model # NoModel /\ KeyGiven /\ ~CacheHit) =>
         /\ CallsOf(calls', "build") # {}
         /\ \A i \in CallsOf(calls', "build") :
              calls'[i].arg[2] = Requested[1] /\ calls'[i].arg[3] = Requested[2]
         /\ (\E i \in CallsOf(calls', "build") : calls'[i].result = "ok") =>
              /\ model' = Handle(Requested[1], Requested[2])
              /\ model_name' = Requested[1]
              /\ device' = Requested[2]
              /\ model' # model]_vars

\* two process commands, the first built a model and succeeded, the second
\* asked for another device and built again
C8_Witness ==
    /\ cmds = <<"process", "process">>
    /\ out[1] = DonePayload
    /\ \E i \in CallsOf(calls, "build") : calls[i].result = "ok"
    /\ model = Handle(Str("basic"), Str("cuda"))
    /\ model_name = Str("basic") /\ device = Str("cuda")

\* what the command read in this step lacks, read off the message itself
PathsMissing ==
    \/ "input" \notin DOMAIN message' \/ message'["input"] \in {None, Str("")}
    \/ "output" \notin DOMAIN message' \/ message'["output"] \in {None, Str("")}
NotNumeric(k, literals) ==
    /\ k \in DOMAIN message'
    /\ message'[k][1] # "num"
    /\ ~(message'[k][1] = "str" /\ message'[k][2] \in literals)
ParamsBad ==
    \/ NotNumeric("ddim_steps", {"100", "50", "42"})
    \/ NotNumeric("guidance_scale", {"100", "50", "42", "3.5", "2.5"})
    \/ NotNumeric("seed", {"100", "50", "42"})

\* C9: a process command without input or output, or with a ddim_steps,
\* guidance_scale or seed that int()/float() rejects, gets exactly one error
\* Response, makes no inference call, and leaves the worker awaiting a command.
C9_InvalidRequestNoInference ==
    [][(ProcessStep /\ (PathsMissing \/ ParamsBad)) =>
         /\ EmitsOne
         /\ Last(out').status = "error"
         /\ CallsOf(calls', "infer") = {}
         /\ CallsOf(calls', "write") = {}
         /\ Awaiting']_vars

\* the model was built for the command, then the missing output path stopped it
C9_Witness ==
    /\ Len(cmds) > 0 /\ Last(cmds) = "process"
    /\ "input" \in DOMAIN message /\ Get(message, "output") = Str("")
    /\ CallsOf(calls, "build") # {}
    /\ model # NoModel
    /\ Last(out).status = "error" /\ Last(out).message = "input or output missing"
    /\ Awaiting

\* the step raised inside the try block of the process command
RaisedInProcess ==
    \/ ~KeyGiven \/ PathsMissing \/ ParamsBad
    \/ \E i \in DOMAIN calls' : calls'[i].result \in {"raise", "none"}

\* C10: a process command whose handling raises (import, validation, build,
\* inference, its result, the write) gets exactly one error Response with the
\* exception text as message and a non-empty traceback; nothing reaches the
\* diagnostic stream or the exit status, and the worker awaits the next line.
C10_ProcessExceptionsCaught ==
    [][(ProcessStep /\ ~hung') =>
         /\ EmitsOne
         /\ Awaiting'
         /\ diag' = diag
         /\ RaisedInProcess =>
              /\ Last(out').status = "error"
              /\ HasTraceback(Last(out'))
              /\ Len(Last(out').traceback) > 0
              /\ Last(out').message = Last(Last(out').traceback)
              /\ Last(out').message # ""
         /\ ~RaisedInProcess => Last(out') = DonePayload]_vars

\* inference raised for the first command, and the next command was answered
C10_Witness ==
    /\ Len(cmds) >= 2 /\ cmds[1] = "process" /\ cmds[2] = "ping"
    /\ HasTraceback(out[1]) /\ out[1].message = "collaborator failed"
    /\ model # NoModel
    /\ out[2] = PingPayload
    /\ state = "AWAITING_COMMAND"

\* the step ended a process command with an error Response
ProcessFailed == ProcessStep /\ ~hung' /\ EmitsOne /\ Last(out').status = "error"
BuiltOk == \E i \in CallsOf(calls', "build") : calls'[i].result = "ok"

\* C11 (as claimed): a process command that ends in an error Response leaves
\* the cache key and the cached handle as they were before the command.
C11_CacheUnchangedOnFailure == [][ProcessFailed => CacheSame]_vars

\* C11 (amended): a process command that ends in an error Response leaves the
\* cache as it was, unless the command itself built a model before it failed;
\* then the cache holds the requested key and the handle built for it.
C11_CacheOnFailure ==
    [][ProcessFailed =>
         IF BuiltOk
         THEN /\ model' = Handle(Requested[1], Requested[2])
              /\ model_name' = Requested[1]
              /\ device' = Requested[2]
         ELSE CacheSame]_vars

\* a loaded cache, then a command for another device that built its model and
\* then failed in inference: the cache now holds the new key
C11_Witness ==
    /\ cmds = <<"process", "process">>
    /\ out[1] = DonePayload
    /\ Len(out) = 2 /\ out[2].status = "error" /\ out[2].message = "collaborator failed"
    /\ \E i \in CallsOf(calls, "build") : calls[i].result = "ok"
    /\ \E i \in CallsOf(calls, "infer") : calls[i].result = "raise"
    /\ model = Handle(Str("basic"), Str("cuda")) /\ device = Str("cuda")

\* a line of the protocol stream that is one Response
IsResponse(p) ==
    /\ {"status", "message"} \subseteq DOMAIN p
    /\ DOMAIN p \subseteq {"status", "message", "traceback"}
    /\ p.status \in {"ok", "error"}
    /\ HasTraceback(p) => p.status = "error" /\ Len(p.traceback) > 0

\* C12: every line of the protocol stream is one Response written by send
\* (status ok or error, a message, a traceback only with status error), at
\* most one per line read; what print() and logging write while a command is
\* handled is on the diagnostic stream and never among these lines.
C12_ProtocolStreamClean ==
    /\ \A i \in 1..Len(out) : IsResponse(out[i])
    /\ Len(out) <= Len(cmds)
    /\ \A i \in 1..Len(printed) : ~IsResponse(printed[i])

\* the collaborator printed while it built the model and ran an inference
\* that raised; the protocol stream holds the two Responses only
C12_Witness ==
    /\ cmds = <<"ping", "process">>
    /\ Len(printed) = 2
    /\ out = <<PingPayload, ErrorPayload(Exc("RuntimeError", "collaborator failed"))>>

\* the inference call of this step returned the shape r
InferReturned(r) == \E i \in CallsOf(calls', "infer") : calls'[i].result = r
WroteOutput(r) ==
    \E i \in CallsOf(calls', "write") :
        calls'[i].arg = Get(message', "output") /\ calls'[i].result = r

\* C13 (as claimed): when inference returns (sample_rate, waveform) the worker
\* writes the file at output itself and then answers done; when inference
\* returns no value the worker writes nothing and still answers done.
C13_BothReturnShapes ==
    [][ProcessStep =>
         /\ InferReturned("tuple") =>
              /\ WroteOutput("ok") \/ WroteOutput("raise")
              /\ WroteOutput("ok") => Emits(DonePayload)
         /\ InferReturned("none") =>
              /\ CallsOf(calls', "write") = {}
              /\ Emits(DonePayload)]_vars

\* C14: between commands the cache holds one handle or none; the key is empty
\* exactly when the handle is empty, and a handle in the cache is the result
\* of a successful build called with exactly the cached (model_name, device).
C14_CacheKeyMatchesHandle ==
    /\ (model = NoModel) <=> (model_name = None)
    /\ (model = NoModel) <=> (device = None)
    /\ model # NoModel =>
         /\ model = Handle(model_name, device)
         /\ Truthy(model_name) /\ Truthy(device)

\* a cache loaded for one key, a build for another key that failed, and the
\* cache still holding the first key with its own handle
C14_Witness ==
    /\ cmds = <<"process", "process">>
    /\ out[1] = DonePayload
    /\ Get(message, "device") = Str("cuda")
    /\ \E i \in CallsOf(calls, "build") : calls[i].result = "raise"
    /\ CallsOf(calls, "infer") = {}
    /\ model = Handle(Str("basic"), Str("cpu"))
    /\ model_name = Str("basic") /\ device = Str("cpu")

\* C15 (as claimed): the positional build call is made only after a named
\* call that failed with a signature mismatch; a named call that failed for
\* another reason, a TypeError raised inside build_model included, is the
\* only build call of the command and is answered with an error Response.
C15_RetryOnSignatureMismatchOnly ==
    [][ProcessStep =>
         \A i \in CallsOf(calls', "build") :
            /\ calls'[i].arg[1] = "positional" =>
                 i > 1 /\ calls'[i - 1] = Call("build", <<"named", Requested[1], Requested[2]>>,
                                               "sig_mismatch")
            /\ (calls'[i].arg[1] = "named" /\ calls'[i].result \in {"raise", "type_error"}) =>
                 /\ CallsOf(calls', "build") = {i}
                 /\ EmitsOne /\ Last(out').status = "error"]_vars

\* C16: a process command makes at most one inference call, after its import
\* and build calls, with the handle built for exactly its own (model_name,
\* device), and only when its key, its input and output and its parameters are
\* all valid; a step that reads no process command makes no call at all (calls
\* holds the calls of the last command read).
C16_InferenceOnMatchingHandle ==
    [][/\ ProcessStep =>
            /\ Cardinality(CallsOf(calls', "infer")) <= 1
            /\ \A i \in CallsOf(calls', "infer") :
                 /\ calls'[i].arg = Handle(Requested[1], Requested[2])
                 /\ calls'[i].arg = model'
                 /\ KeyGiven /\ ~PathsMissing /\ ~ParamsBad
                 /\ \A j \in CallsOf(calls', "import") \cup CallsOf(calls', "build") : j < i
                 /\ \A j \in CallsOf(calls', "import") \cup CallsOf(calls', "build") :
                      calls'[j].result \in {"ok", "sig_mismatch", "type_error"}
       /\ ~ProcessStep => calls' \in {calls, <<>>}]_vars

\* the cache held another key; the command asked for (basic, cuda), a model
\* was built for it and inference ran on the handle of (basic, cuda)
C16_Witness ==
    /\ cmds = <<"process", "process">>
    /\ out = <<DonePayload, DonePayload>>
    /\ Get(message, "device") = Str("cuda")
    /\ CallsOf(calls, "build") # {}
    /\ \E i \in CallsOf(calls, "infer") :
         calls[i].arg = Handle(Str("basic"), Str("cuda")) /\ calls[i].result = "tuple"

ImportFailed == \E i \in CallsOf(calls', "import") : calls'[i].result = "raise"

\* C17: nothing is imported at startup or by a step that reads no process
\* command; a process command read while the collaborator module is unbound
\* starts by importing it, and one read after the import succeeded imports
\* nothing; a failed import is answered with one error Response and the worker
\* awaits the next command, the cache as it was.
C17_LazyImport ==
    /\ audiosr_module = NoModule /\ calls = <<>>
    /\ [][/\ ~ProcessStep => ModuleSame /\ calls' \in {<<>>, calls}
          /\ (ProcessStep /\ audiosr_module = NoModule) =>
               /\ calls' # <<>>
               /\ calls'[1].op = "import" /\ calls'[1].arg = Str("audiosr")
               /\ calls'[1].result = "ok" <=> audiosr_module' # NoModule
          /\ (ProcessStep /\ audiosr_module # NoModule) =>
               /\ CallsOf(calls', "import") = {}
               /\ audiosr_module' = audiosr_module
          /\ (ProcessStep /\ ImportFailed) =>
               /\ EmitsOne
               /\ Last(out').status = "error" /\ HasTraceback(Last(out'))
               /\ CallsOf(calls', "build") \cup CallsOf(calls', "infer") = {}
               /\ CacheSame
               /\ Awaiting']_vars

\* the import failed for the first process command, succeeded for the second,
\* and the third one imported nothing
C17_Witness ==
    /\ cmds = <<"process", "process", "process">>
    /\ Len(out) = 3
    /\ out[1].status = "error" /\ out[1].message = "No module named 'audiosr'"
    /\ out[2] = DonePayload
    /\ out[3] = DonePayload
    /\ CallsOf(calls, "import") = {}
    /\ audiosr_module = "audiosr"

\* C18 (as claimed): a line is read only after the command before it was
\* answered, so while no collaborator call hangs every command read has its
\* Response and the run reaches TERMINATED; once an inference call hangs, it
\* has no Response and nothing more is read or written.
C18_SequentialToCompletion ==
    /\ [](~hung => Len(out) = Len(cmds))
    /\ [](hung => Len(out) = Len(cmds) - 1)
    /\ [][hung => (hung' /\ out' = out /\ cmds' = cmds /\ nlines' = nlines)]_vars
    /\ [][Len(cmds') > Len(cmds) => Len(out) = Len(cmds)]_vars
    /\ <>(hung \/ state = "TERMINATED")

\* C19: a process command whose model_name or device is absent, null or empty
\* gets exactly one error Response, calls neither build nor inference, and
\* leaves the cache key and handle as they were, empty or loaded.
C19_MissingKeyLeavesCache ==
    [][(ProcessStep /\ ~KeyGiven) =>
         /\ EmitsOne
         /\ Last(out').status = "error"
         /\ ~ImportFailed => Last(out').message = "model_name or device missing"
         /\ CallsOf(calls', "build") = {}
         /\ CallsOf(calls', "infer") = {}
         /\ CacheSame
         /\ Awaiting']_vars

\* a loaded cache, then a process command with a model_name and a null device:
\* one error Response and the cache still loaded with the first key
C19_Witness ==
    /\ cmds = <<"process", "process">>
    /\ out[1] = DonePayload
    /\ Truthy(Get(message, "model_name")) /\ Get(message, "device") = None
    /\ Len(out) = 2 /\ out[2].message = "model_name or device missing"
    /\ calls = <<>>
    /\ model = Handle(model_name, device) /\ model # NoModel

\* the build of this step failed: build was called and no call returned a handle
BuildFailed == CallsOf(calls', "build") # {} /\ ~BuiltOk

\* C20: a process command whose build fails is answered with an error Response
\* and leaves the cache key and handle as they were, so the failed key is not
\* in the cache; a later command for the cached key calls no build, and a
\* later command for any other valid key, the failed one included, calls build.
C20_FailedBuildNotCached ==
    [][/\ (ProcessStep /\ BuildFailed) =>
            /\ CacheSame
            /\ <<model_name', device'>> # Requested
            /\ EmitsOne /\ Last(out').status = "error"
            /\ CallsOf(calls', "infer") = {}
       /\ (ProcessStep /\ CacheHit) => CallsOf(calls', "build") = {}
       /\ (ProcessStep /\ KeyGiven /\ ~CacheHit /\ ~ImportFailed) =>
            CallsOf(calls', "build") # {}]_vars

\* the cache held (basic, cpu); the build for (basic, cuda) failed; the next
\* command asked for (basic, cpu) again and ran on the cached handle, no build
C20_Witness ==
    /\ cmds = <<"process", "process", "process">>
    /\ out[1] = DonePayload
    /\ out[2].status = "error" /\ out[2].message = "collaborator failed"
    /\ out[3] = DonePayload
    /\ Get(message, "device") = Str("cpu")
    /\ CallsOf(calls, "build") = {}
    /\ \E i \in CallsOf(calls, "infer") : calls[i].arg = Handle(Str("basic"), Str("cpu"))
    /\ model = Handle(Str("basic"), Str("cpu"))

====
